---- MODULE Spec2Model ----
(***************************************************************************)
(* Model of BootstrapScriptWithToken/bootstrap.py: the zero-touch          *)
(* enrollment workflow (module import handling, __main__, the              *)
(* BootstrapManager steps, tryImageUpgrade and the SIGTERM handler).       *)
(*                                                                         *)
(* Python strings that the code inspects character by character (the      *)
(* management address and the URLs derived from it) are sequences of       *)
(* one-character strings.  Strings the code only compares with "" or       *)
(* passes on (token, eosUrl, file contents) are TLA+ strings.              *)
(*                                                                         *)
(* Environment assumption: /usr/bin/FastCli exists, which is what          *)
(* CliManager.confidenceCheck (line 127) asserts.                          *)
(***************************************************************************)
EXTENDS Integers, Sequences, FiniteSets, TLC

(***************************************************************************)
(* String helpers (Python str methods on character sequences)              *)
(***************************************************************************)
Drop(s, n) == SubSeq(s, n + 1, Len(s))

startswith(s, p) == Len(s) >= Len(p) /\ SubSeq(s, 1, Len(p)) = p

endswith(s, p) == Len(s) >= Len(p) /\ SubSeq(s, Len(s) - Len(p) + 1, Len(s)) = p

\* str.find: 0-based index of the first occurrence, -1 when absent
find(s, p) ==
  LET hits == {i \in 0..Len(s) : i + Len(p) <= Len(s) /\ SubSeq(s, i + 1, i + Len(p)) = p}
  IN IF hits = {} THEN -1 ELSE CHOOSE i \in hits : \A j \in hits : i <= j

\* str.replace: every non-overlapping occurrence, left to right
RECURSIVE replace(_, _, _)
replace(s, old, new) ==
  IF Len(s) < Len(old) \/ Len(old) = 0 THEN s
  ELSE IF startswith(s, old) THEN new \o replace(Drop(s, Len(old)), old, new)
  ELSE <<Head(s)>> \o replace(Tail(s), old, new)

\* index (1-based) of the first "/" at or after position i, Len(s)+1 when none
RECURSIVE firstSlash(_, _)
firstSlash(s, i) ==
  IF i > Len(s) THEN Len(s) + 1
  ELSE IF s[i] = "/" THEN i ELSE firstSlash(s, i + 1)

(***************************************************************************)
(* Program constants                                                       *)
(***************************************************************************)
SECURE_HTTPS_PORT == <<"4","4","3">>
SECURE_TOKEN == "token-secure"
INGEST_TOKEN == "token"
REDIRECTOR_PATH == <<"a","p","i","/","v","3","/","s","e","r","v","i","c","e","s","/","a","r","i","s","t","a",".","r","e","d","i","r","e","c","t","o","r",".","v","1",".","A","s","s","i","g","n","m","e","n","t","S","e","r","v","i","c","e","/","G","e","t","O","n","e">>
DEFAULT_PATH == <<"/","z","t","p","/","b","o","o","t","s","t","r","a","p">>
FALLBACK_CERT == "/persist/secure/ssl/terminattr/primary/certs/client.crt"
FALLBACK_KEY == "/persist/secure/ssl/terminattr/primary/keys/client.key"
TIMEOUT_RC == 124
SIGTERM == 15
SIGTERM_EXIT_BASE == 127

S_http == <<"h","t","t","p">>
S_https == <<"h","t","t","p","s">>
S_slashes == <<"/","/">>
S_apiserver == <<"a","p","i","s","e","r","v","e","r">>
S_www == <<"w","w","w">>
S_aristaio == <<"a","r","i","s","t","a",".","i","o">>

\* Python None, as a value comparable with character sequences
None == <<"None">>

(***************************************************************************)
(* urlparse, restricted to what getBootstrapURL hands it: the address      *)
(* starts with "//", "http://" or "https://" and holds no "?", "#", ";".   *)
(***************************************************************************)
urlparse(addr) ==
  LET scheme == IF startswith(addr, S_http \o <<":">> \o S_slashes) THEN S_http
                ELSE IF startswith(addr, S_https \o <<":">> \o S_slashes) THEN S_https
                ELSE <<>>
      rest == IF scheme = <<>> THEN addr ELSE Drop(addr, Len(scheme) + 1)
      hasNetloc == startswith(rest, S_slashes)
      cut == IF hasNetloc THEN firstSlash(rest, 3) ELSE 1
  IN [scheme |-> scheme,
      netloc |-> IF hasNetloc THEN SubSeq(rest, 3, cut - 1) ELSE <<>>,
      path |-> SubSeq(rest, cut, Len(rest))]

\* getBootstrapURL with http as the default scheme of both classes
getBootstrapURL_http(isCloud, addr0) ==
  LET addr1 == IF ~(startswith(addr0, S_slashes)
                    \/ startswith(addr0, S_http \o <<":">> \o S_slashes)
                    \/ startswith(addr0, S_https \o <<":">> \o S_slashes))
               THEN S_slashes \o addr0 ELSE addr0
      addr2 == IF isCloud THEN replace(addr1, S_apiserver, S_www) ELSE addr1
      u0 == urlparse(addr2)
      u1 == IF u0.netloc = <<>> THEN [u0 EXCEPT !.path = <<>>, !.netloc = u0.path] ELSE u0
      u2 == IF u1.path = <<>> THEN [u1 EXCEPT !.path = DEFAULT_PATH] ELSE u1
  IN IF u2.scheme = <<>>
     THEN [u2 EXCEPT !.scheme = S_http]
     ELSE u2

\* BootstrapManager.getBootstrapURL; isCloud is isinstance(self, CloudBootstrapManager)
getBootstrapURL(isCloud, addr0) ==
  LET addr1 == IF ~(startswith(addr0, S_slashes)
                    \/ startswith(addr0, S_http \o <<":">> \o S_slashes)
                    \/ startswith(addr0, S_https \o <<":">> \o S_slashes))
               THEN S_slashes \o addr0 ELSE addr0
      addr2 == IF isCloud THEN replace(addr1, S_apiserver, S_www) ELSE addr1
      u0 == urlparse(addr2)
      u1 == IF u0.netloc = <<>> THEN [u0 EXCEPT !.path = <<>>, !.netloc = u0.path] ELSE u0
      u2 == IF u1.path = <<>> THEN [u1 EXCEPT !.path = DEFAULT_PATH] ELSE u1
  IN IF u2.scheme = <<>>
     THEN [u2 EXCEPT !.scheme = IF isCloud THEN S_https ELSE S_http]
     ELSE u2

\* ParseResult.geturl (urlunparse) for URLs without params, query, fragment
geturl(u) ==
  LET addSlashes == \/ u.netloc # <<>>
                    \/ (u.scheme \in {S_http, S_https} /\ ~startswith(u.path, S_slashes))
      p == IF addSlashes /\ u.path # <<>> /\ Head(u.path) # "/"
           THEN <<"/">> \o u.path ELSE u.path
      body == IF addSlashes THEN S_slashes \o u.netloc \o p ELSE p
  IN IF u.scheme # <<>> THEN u.scheme \o <<":">> \o body ELSE body

(***************************************************************************)
(* User input (lines 22-42) and the values the runs are checked with       *)
(***************************************************************************)
A_empty == <<>>
A_onprem == <<"1","0",".","0",".","0",".","5">>
A_cloud == <<"w","w","w",".","a","r","i","s","t","a",".","i","o">>
A_cloudApi == <<"a","p","i","s","e","r","v","e","r",".","a","r","i","s","t","a",".","i","o">>

A_onpremUrl == <<"h","t","t","p","s",":","/","/","c","v","p","/","b">>

CvAddrs == {A_empty, A_onprem, A_onpremUrl, A_cloud, A_cloudApi}
Tokens == {"", "abc.def.ghi"}
EosUrls == {"", "http://10.0.0.9/EOS.swi"}

(***************************************************************************)
(* Outcomes of the external collaborators                                  *)
(***************************************************************************)
\* FastCli batch: exit status of the pipeline, and whether an output line starts with "%"
CliResults == {[exit |-> 0, percent |-> FALSE], [exit |-> 0, percent |-> TRUE],
               [exit |-> 1, percent |-> FALSE]}
\* exit status of "timeout 60s /usr/bin/TerminAttr ..."
AgentRcs == {0, 1, TIMEOUT_RC}
REPORTED_CERT == "/agent/reported/client.crt"
REPORTED_KEY == "/agent/reported/client.key"
\* stdout of "TerminAttr -certsconfig": not JSON, or a JSON map with one host entry
AgentOutputs ==
  {[json |-> FALSE, host |-> None, fields |-> {}]} \cup
  {[json |-> TRUE, host |-> h, fields |-> f] :
     h \in {A_onprem, A_cloud}, f \in SUBSET {"certFile", "keyFile"}}
\* answer to the bootstrap GET: a transport failure, a server that accepts the
\* request and never answers, or a final HTTP response
Statuses == {200, 204, 304, 404, 500}
Bodies == {"script-A", "script-B"}
Responses ==
  {[kind |-> "transport", status |-> 0, body |-> ""],
   [kind |-> "silent", status |-> 0, body |-> ""]} \cup
  {[kind |-> "http", status |-> st, body |-> b] : st \in Statuses, b \in Bodies}
\* Popen.returncode of the bootstrap script: exit status, or -N when killed by signal N
ChildRcs == {0, 1, 3, 255, -9}

(***************************************************************************)
(* Exceptions                                                              *)
(***************************************************************************)
NoError == [type |-> "none", code |-> 0, msg |-> ""]
Err(t, m) == [type |-> t, code |-> 0, msg |-> m]
CalledProcessError(rc, cmd) == [type |-> "CalledProcessError", code |-> rc, msg |-> cmd]
ImportErr == Err("ImportError", "requests")

(***************************************************************************)
(* State                                                                   *)
(***************************************************************************)
VARIABLES
  cvAddr, enrollmentToken, eosUrl, \* user input, lines 22-42
  python,                          \* major version of the running interpreter
  pc,                              \* position of the single thread of control
  requestsLoaded,                  \* whether the name "requests" is bound
  bm,                              \* the manager object's fields
  started,                         \* workflow steps begun, in order
  redirectorPosts,                 \* POSTs sent to the redirector
  postResp,                        \* the answer to the redirector POST
  enrollRc,                        \* exit status of the enrollment command, -1 before
  enrollCmdAddr,                   \* the -cvaddr value of the enrollment command
  upgradeFrom,                     \* places tryImageUpgrade was entered from, in order
  cliCmds,                         \* commands handed to FastCli by tryImageUpgrade
  cliResults,                      \* what FastCli did with each of them
  rebootPending,                   \* "reload all now" was accepted
  tokenFile, scriptFile,           \* /tmp/token.tok, /tmp/bootstrap-script
  locRc, locOut,                   \* what the agent answered in getCertificatePaths
  locCmdAddr,                      \* the -cvaddr value of the -certsconfig command
  getCount, getResp,               \* bootstrap GETs sent, the answer to the last one
  getUrl,                          \* the URL of the last bootstrap GET
  handlerInstalled,                \* signal.signal(SIGTERM, handleSigterm) was run
  proc,                            \* local variable proc of executeBootstrap
  childState, childRc,             \* the bootstrap script process
  returncode,                      \* proc.returncode
  childSignalled,                  \* proc.terminate() reached the running child
  sigtermHandled,                  \* handleSigterm ran
  fatalErr, exitCode               \* the uncaught exception, the process exit status

cfgVars == <<cvAddr, enrollmentToken, eosUrl>>
upVars == <<upgradeFrom, cliCmds, cliResults, rebootPending>>
locVars == <<locRc, locOut, locCmdAddr>>
getVars == <<getCount, getResp, getUrl, scriptFile>>
redirVars == <<redirectorPosts, postResp>>
enrollVars == <<enrollRc, enrollCmdAddr>>
execVars == <<handlerInstalled, proc, childState, childRc, returncode, childSignalled,
              sigtermHandled>>
endVars == <<fatalErr, exitCode>>
vars == <<cfgVars, python, pc, requestsLoaded, bm, started, redirVars, enrollVars,
          upVars, tokenFile, locVars, getVars, execVars, endVars>>

NoneURL == [scheme |-> None, netloc |-> None, path |-> None]
NoRc == -1
NoReturncode == -1000
NoResp == [kind |-> "none", status |-> 0, body |-> ""]
NoOut == [json |-> FALSE, host |-> None, fields |-> {}]
NoPost == [kind |-> "none", status |-> 0, body |-> [shape |-> "none", host |-> None]]
\* a command or request that was not issued (yet)
NotRun == <<"not run">>
Terminal == {"Done", "Fatal", "Exited", "Killed", "Rebooted"}

\* BootstrapManager.__init__
BootstrapManager ==
  [variant |-> "none", bootstrapURL |-> NoneURL, redirectorURL |-> NoneURL,
   tokenType |-> "None", enrollAddr |-> None, certificate |-> "", key |-> ""]

\* CloudBootstrapManager.__init__
CloudBootstrapManager(addr) ==
  LET url == getBootstrapURL(TRUE, addr)
  IN [BootstrapManager EXCEPT !.variant = "cloud", !.bootstrapURL = url,
        !.redirectorURL = [url EXCEPT !.path = REDIRECTOR_PATH],
        !.tokenType = SECURE_TOKEN, !.enrollAddr = None]

\* variant: the on-prem manager leaves enrollAddr unset, as the cloud one does
OnPremBootstrapManager_unset(addr) ==
  LET url == getBootstrapURL(FALSE, addr)
  IN [BootstrapManager EXCEPT !.variant = "onprem", !.bootstrapURL = url,
        !.redirectorURL = NoneURL,
        !.tokenType = INGEST_TOKEN, !.enrollAddr = None]

\* OnPremBootstrapManager.__init__
OnPremBootstrapManager(addr) ==
  LET url == getBootstrapURL(FALSE, addr)
  IN [BootstrapManager EXCEPT !.variant = "onprem", !.bootstrapURL = url,
        !.redirectorURL = NoneURL,
        !.tokenType = INGEST_TOKEN, !.enrollAddr = url.netloc]

Init ==
  /\ cvAddr \in CvAddrs
  /\ enrollmentToken \in Tokens
  /\ eosUrl \in EosUrls
  /\ python = 2
  /\ pc = "Boot"
  /\ requestsLoaded = FALSE
  /\ bm = BootstrapManager
  /\ started = <<>>
  /\ redirectorPosts = 0
  /\ postResp = NoPost
  /\ enrollRc = NoRc
  /\ enrollCmdAddr = NotRun
  /\ upgradeFrom = <<>>
  /\ cliCmds = <<>>
  /\ cliResults = <<>>
  /\ rebootPending = FALSE
  /\ tokenFile = "stale"
  /\ scriptFile = "stale"
  /\ locRc = NoRc
  /\ locOut = NoOut
  /\ locCmdAddr = NotRun
  /\ getCount = 0
  /\ getResp = NoResp
  /\ getUrl = NotRun
  /\ handlerInstalled = FALSE
  /\ proc = "None"
  /\ childState = "none"
  /\ childRc = NoReturncode
  /\ returncode = NoReturncode
  /\ childSignalled = FALSE
  /\ sigtermHandled = FALSE
  /\ fatalErr = NoError
  /\ exitCode = NoRc

(***************************************************************************)
(* Process exit                                                            *)
(***************************************************************************)
\* variant: every failure of the script is reported as exit status 1
exitStatus_flat(n) == IF n = 0 THEN 0 ELSE 1

\* exit status the operating system reports for sys.exit(n)
exitStatus(n) == n % 256

\* variant: the failure is recorded but the process reports success
Die_status0(err) ==
  /\ pc' = "Fatal"
  /\ fatalErr' = err
  /\ exitCode' = 0

\* an exception nobody catches, or sys.exit(<string>): traceback/message, status 1
Die(err) ==
  /\ pc' = "Fatal"
  /\ fatalErr' = err
  /\ exitCode' = 1

(***************************************************************************)
(* CliManager.runCommands and tryImageUpgrade                              *)
(***************************************************************************)
\* variant: only the exit status counts, "%" error lines are not looked at
runCommands_exitOnly(res) == res.exit

\* the rc of the (rc, output) pair runCommands returns
runCommands(res) ==
  IF res.exit # 0 THEN res.exit
  ELSE IF res.percent THEN 1
  ELSE 0

\* variant: the install is attempted whether or not eosUrl is set
upgradeConfigured_always(url) == TRUE

\* line 232: an empty eosUrl means no upgrade is configured
upgradeConfigured(url) == url # ""

\* tryImageUpgrade(e): the exception it raises (NoError when it returns) and the
\* command batches it ran
tryImageUpgrade(e, url, installRes, rebootRes) ==
  IF ~upgradeConfigured(url)
  THEN [raised |-> e, cmds |-> <<>>]
  ELSE IF runCommands(installRes) # 0
  THEN [raised |-> Err("Exception", "Failed to upgrade EOS"), cmds |-> <<"install">>]
  ELSE IF runCommands(rebootRes) # 0
  THEN [raised |-> Err("Exception", "Failed to reboot for image upgrade"),
        cmds |-> <<"install", "reboot">>]
  ELSE [raised |-> NoError, cmds |-> <<"install", "reboot">>]

\* the commands of one tryImageUpgrade call, tagged with the caller
tagged(cmds, from) == [i \in 1..Len(cmds) |-> [cmd |-> cmds[i], from |-> from]]

\* tryImageUpgrade called from `from` with exception e; control goes to `next`
\* when it returns
Upgrade(from, e, installRes, rebootRes, next) ==
  LET up == tryImageUpgrade(e, eosUrl, installRes, rebootRes)
  IN /\ upgradeFrom' = Append(upgradeFrom, from)
     /\ cliCmds' = cliCmds \o tagged(up.cmds, from)
     /\ cliResults' = cliResults \o SubSeq(<<installRes, rebootRes>>, 1, Len(up.cmds))
     /\ IF up.raised = NoError
        THEN /\ pc' = next
             /\ rebootPending' = TRUE
             /\ UNCHANGED endVars
        ELSE /\ Die(up.raised)
             /\ UNCHANGED rebootPending

(***************************************************************************)
(* Module level: imports and __main__                                      *)
(***************************************************************************)
\* lines 16-18: unguarded imports; "import urlparse" exists in Python 2 only,
\* SysdbHelperUtils is missing on old EOS
Boot ==
  /\ pc = "Boot"
  /\ \E sysdbOK \in BOOLEAN :
       IF python = 3 \/ ~sysdbOK
       THEN Die(Err("ImportError", "top-level import"))
       ELSE pc' = "ImportHandling" /\ UNCHANGED endVars
  /\ UNCHANGED <<cfgVars, python, requestsLoaded, bm, started, redirVars, enrollVars,
                 upVars, tokenFile, locVars, getVars, execVars>>

\* lines 262-271
ImportHandling ==
  /\ pc = "ImportHandling"
  /\ \E requestsOK \in BOOLEAN, py3Exists \in BOOLEAN,
        installRes \in CliResults, rebootRes \in CliResults :
       IF requestsOK
       THEN /\ requestsLoaded' = TRUE
            /\ pc' = "Main"
            /\ UNCHANGED <<python, upVars, endVars>>
       ELSE IF python < 3 /\ py3Exists
       THEN \* os.execl: the same script starts again under python3
            /\ python' = 3
            /\ pc' = "Boot"
            /\ UNCHANGED <<requestsLoaded, upVars, endVars>>
       ELSE /\ Upgrade("Import", ImportErr, installRes, rebootRes, "Main")
            /\ UNCHANGED <<python, requestsLoaded>>
  /\ UNCHANGED <<cfgVars, bm, started, redirVars, enrollVars,
                 tokenFile, locVars, getVars, execVars>>

\* line 546
isCloudAddr(addr) == find(addr, S_aristaio) # -1

\* lines 532-552, up to the call of bm.run()
Main ==
  /\ pc = "Main"
  /\ IF cvAddr = <<>>
     THEN Die(Err("SystemExit", "Error: address to CVP missing")) /\ UNCHANGED bm
     ELSE IF enrollmentToken = ""
     THEN Die(Err("SystemExit", "error: enrollment token missing")) /\ UNCHANGED bm
     ELSE /\ bm' = IF isCloudAddr(cvAddr) THEN CloudBootstrapManager(cvAddr)
                   ELSE OnPremBootstrapManager(cvAddr)
          /\ pc' = "Enroll"
          /\ UNCHANGED endVars
  /\ UNCHANGED <<cfgVars, python, requestsLoaded, started, redirVars, enrollVars,
                 upVars, tokenFile, locVars, getVars, execVars>>

(***************************************************************************)
(* BootstrapManager.run: the steps, in the order run() calls them.         *)
(* checkWithRedirector (Step 0, lines 326-353) is called neither by run()  *)
(* nor from anywhere else, so no action of a run sends the redirector POST.*)
(***************************************************************************)
\* variant: every failing enrollment is taken for a timeout
isTimeout_nonzero(rc) == rc # 0

\* variant: the timeout is looked for under the exit status of a SIGKILL
isTimeout_kill(rc) == rc = 137

\* variant: exit status 1 is taken for a timeout as well
isTimeout_one(rc) == rc \in {1, TIMEOUT_RC}

\* line 382
isTimeout(rc) == rc = TIMEOUT_RC

\* Step 1, getClientCerficates
getClientCerficates ==
  /\ pc = "Enroll"
  /\ started' = Append(started, "Enroll")
  /\ tokenFile' = enrollmentToken
  /\ enrollCmdAddr' = bm.enrollAddr
  /\ \E rc \in AgentRcs, installRes \in CliResults, rebootRes \in CliResults :
       /\ enrollRc' = rc
       /\ IF rc = 0
          THEN pc' = "LocatePaths" /\ UNCHANGED <<upVars, endVars>>
          ELSE IF isTimeout(rc)
          THEN Upgrade("Enroll", CalledProcessError(rc, "enroll"), installRes, rebootRes,
                       "LocatePaths")
          ELSE Die(CalledProcessError(rc, "enroll")) /\ UNCHANGED upVars
  /\ UNCHANGED <<cfgVars, python, requestsLoaded, bm, redirVars,
                 locVars, getVars, execVars>>

\* parseCertsConfig reading keyFile leniently: a missing keyFile leaves the
\* key as it was and raises nothing
parseCertsConfig_lenient(m, rc, out) ==
  IF rc # 0
  THEN [cert |-> FALLBACK_CERT, key |-> FALLBACK_KEY, raised |-> NoError]
  ELSE IF ~out.json
  THEN [cert |-> m.certificate, key |-> m.key, raised |-> Err("ValueError", "json.loads")]
  ELSE IF out.host # m.enrollAddr
  THEN [cert |-> m.certificate, key |-> m.key, raised |-> Err("KeyError", "enrollAddr")]
  ELSE IF "certFile" \notin out.fields
  THEN [cert |-> m.certificate, key |-> m.key, raised |-> Err("KeyError", "certFile")]
  ELSE IF "keyFile" \notin out.fields
  THEN [cert |-> REPORTED_CERT, key |-> m.key, raised |-> NoError]
  ELSE [cert |-> REPORTED_CERT, key |-> REPORTED_KEY, raised |-> NoError]

\* lines 404-413 of getCertificatePaths: what the agent's answer does to
\* (certificate, key), and the exception that leaves the method
parseCertsConfig(m, rc, out) ==
  IF rc # 0
  THEN [cert |-> FALLBACK_CERT, key |-> FALLBACK_KEY, raised |-> NoError]
  ELSE IF ~out.json
  THEN [cert |-> m.certificate, key |-> m.key, raised |-> Err("ValueError", "json.loads")]
  ELSE IF out.host # m.enrollAddr
  THEN [cert |-> m.certificate, key |-> m.key, raised |-> Err("KeyError", "enrollAddr")]
  ELSE IF "certFile" \notin out.fields
  THEN [cert |-> m.certificate, key |-> m.key, raised |-> Err("KeyError", "certFile")]
  ELSE IF "keyFile" \notin out.fields
  THEN [cert |-> REPORTED_CERT, key |-> m.key, raised |-> Err("KeyError", "keyFile")]
  ELSE [cert |-> REPORTED_CERT, key |-> REPORTED_KEY, raised |-> NoError]

\* Step 2, getCertificatePaths
getCertificatePaths ==
  /\ pc = "LocatePaths"
  /\ started' = Append(started, "LocatePaths")
  /\ \E rc \in AgentRcs, out \in AgentOutputs :
       LET r == parseCertsConfig(bm, rc, out)
       IN /\ locRc' = rc
          /\ locCmdAddr' = bm.enrollAddr
          /\ locOut' = IF rc = 0 THEN out ELSE NoOut
          /\ bm' = [bm EXCEPT !.certificate = r.cert, !.key = r.key]
          /\ IF r.raised = NoError
             THEN pc' = "FetchScript" /\ UNCHANGED endVars
             ELSE Die(r.raised)
  /\ UNCHANGED <<cfgVars, python, requestsLoaded, redirVars, enrollVars,
                 upVars, tokenFile, getVars, execVars>>

\* requests' Response.raise_for_status: raises for 4xx and 5xx
raise_for_status(status) == 400 <= status /\ status < 600

\* Step 3.1, getBootstrapScript
getBootstrapScript ==
  /\ pc = "FetchScript"
  /\ started' = Append(started, "FetchScript")
  /\ \E identityOK \in BOOLEAN, resp \in Responses :
       IF ~identityOK
       THEN \* Sysdb entity lookup or getKeyValueFromFile raised
            Die(Err("Exception", "device identity")) /\ UNCHANGED getVars
       ELSE IF ~requestsLoaded
       THEN Die(Err("NameError", "requests")) /\ UNCHANGED getVars
       ELSE /\ getCount' = getCount + 1
            /\ getResp' = resp
            /\ getUrl' = geturl(bm.bootstrapURL)
            /\ IF resp.kind = "silent"
               THEN \* no timeout= is passed: requests.get does not return
                    pc' = "Blocked" /\ UNCHANGED <<scriptFile, endVars>>
               ELSE IF resp.kind = "transport"
               THEN Die(Err("ConnectionError", "GET")) /\ UNCHANGED scriptFile
               ELSE IF raise_for_status(resp.status)
               THEN Die([type |-> "HTTPError", code |-> resp.status, msg |-> "GET"])
                    /\ UNCHANGED scriptFile
               ELSE /\ scriptFile' = resp.body
                    /\ pc' = "Execute"
                    /\ UNCHANGED endVars
  /\ UNCHANGED <<cfgVars, python, requestsLoaded, bm, redirVars, enrollVars,
                 upVars, tokenFile, locVars, execVars>>

(***************************************************************************)
(* Step 3.2, executeBootstrap, statement by statement: SIGTERM can be      *)
(* handled between any two of them                                         *)
(***************************************************************************)
\* lines 477-483: chmod +x
ExecChmod ==
  /\ pc = "Execute"
  /\ started' = Append(started, "Execute")
  /\ \E ok \in BOOLEAN :
       IF ok THEN pc' = "InstallHandler" /\ UNCHANGED endVars
       ELSE Die(CalledProcessError(1, "chmod"))
  /\ UNCHANGED <<cfgVars, python, requestsLoaded, bm, redirVars, enrollVars,
                 upVars, tokenFile, locVars, getVars, execVars>>

\* line 488
InstallHandler ==
  /\ pc = "InstallHandler"
  /\ handlerInstalled' = TRUE
  /\ pc' = "Popen"
  /\ UNCHANGED <<cfgVars, python, requestsLoaded, bm, started, redirVars, enrollVars,
                 upVars, tokenFile, locVars, getVars, proc, childState, childRc,
                 returncode, childSignalled, sigtermHandled, endVars>>

\* line 489, right-hand side: Popen forks the child
Popen ==
  /\ pc = "Popen"
  /\ childState' = "running"
  /\ pc' = "AssignProc"
  /\ UNCHANGED <<cfgVars, python, requestsLoaded, bm, started, redirVars, enrollVars,
                 upVars, tokenFile, locVars, getVars, handlerInstalled, proc, childRc,
                 returncode, childSignalled, sigtermHandled, endVars>>

\* line 489, the assignment to proc
AssignProc ==
  /\ pc = "AssignProc"
  /\ proc' = "child"
  /\ pc' = "Communicate"
  /\ UNCHANGED <<cfgVars, python, requestsLoaded, bm, started, redirVars, enrollVars,
                 upVars, tokenFile, locVars, getVars, handlerInstalled, childState, childRc,
                 returncode, childSignalled, sigtermHandled, endVars>>

\* the bootstrap script ends on its own
ChildExits ==
  /\ childState = "running"
  /\ pc # "Rebooted"
  /\ \E rc \in ChildRcs : childRc' = rc
  /\ childState' = "exited"
  /\ UNCHANGED <<cfgVars, python, pc, requestsLoaded, bm, started, redirVars, enrollVars,
                 upVars, tokenFile, locVars, getVars, handlerInstalled, proc,
                 returncode, childSignalled, sigtermHandled, endVars>>

\* line 490: communicate() returns once the child has ended, and sets returncode
Communicate ==
  /\ pc = "Communicate"
  /\ childState = "exited"
  /\ returncode' = childRc
  /\ pc' = "CheckRc"
  /\ UNCHANGED <<cfgVars, python, requestsLoaded, bm, started, redirVars, enrollVars,
                 upVars, tokenFile, locVars, getVars, handlerInstalled, proc, childState,
                 childRc, childSignalled, sigtermHandled, endVars>>

\* lines 491-497, then run() and the script return
CheckRc ==
  /\ pc = "CheckRc"
  /\ IF returncode # 0
     THEN pc' = "Exited" /\ exitCode' = exitStatus(returncode)
     ELSE pc' = "Done" /\ exitCode' = 0
  /\ UNCHANGED <<cfgVars, python, requestsLoaded, bm, started, redirVars, enrollVars,
                 upVars, tokenFile, locVars, getVars, execVars, fatalErr>>

\* line 470: the handler forwards the signal only through a bound proc
handleCanTerminate(p) == p # "None"

\* lines 469-472, run when SIGTERM arrives after line 488.  Python 2's
\* Popen.terminate is os.kill(pid): on a child that communicate() already
\* reaped it raises OSError (ESRCH) or hits whatever reuses the pid.
HandleSigterm ==
  /\ handlerInstalled
  /\ pc \notin Terminal
  /\ sigtermHandled' = TRUE
  /\ IF handleCanTerminate(proc) /\ returncode # NoReturncode
     THEN /\ \E esrch \in BOOLEAN :
               IF esrch THEN Die(Err("OSError", "ESRCH"))
               ELSE /\ pc' = "Exited"
                    /\ exitCode' = exitStatus(SIGTERM_EXIT_BASE + SIGTERM)
                    /\ UNCHANGED fatalErr
          /\ UNCHANGED childSignalled
     ELSE /\ childSignalled' = (childSignalled \/ handleCanTerminate(proc))
          /\ pc' = "Exited"
          /\ exitCode' = exitStatus(SIGTERM_EXIT_BASE + SIGTERM)
          /\ UNCHANGED fatalErr
  /\ UNCHANGED <<cfgVars, python, requestsLoaded, bm, started, redirVars, enrollVars,
                 upVars, tokenFile, locVars, getVars, handlerInstalled, proc, childState,
                 childRc, returncode>>

\* SIGTERM before line 488: the default disposition ends the process
SigtermDefault ==
  /\ ~handlerInstalled
  /\ pc \notin Terminal
  /\ pc' = "Killed"
  /\ exitCode' = 128 + SIGTERM
  /\ UNCHANGED <<cfgVars, python, requestsLoaded, bm, started, redirVars, enrollVars,
                 upVars, tokenFile, locVars, getVars, execVars, fatalErr>>

\* the device goes down some time after "reload all now" was accepted
DeviceReload ==
  /\ rebootPending
  /\ pc \notin Terminal
  /\ pc' = "Rebooted"
  /\ childState' = IF childState = "running" THEN "exited" ELSE childState
  /\ childRc' = IF childState = "running" THEN -9 ELSE childRc
  /\ UNCHANGED <<cfgVars, python, requestsLoaded, bm, started, redirVars, enrollVars,
                 upVars, tokenFile, locVars, getVars, handlerInstalled, proc,
                 returncode, childSignalled, sigtermHandled, endVars>>

Next ==
  \/ Boot
  \/ ImportHandling
  \/ Main
  \/ getClientCerficates
  \/ getCertificatePaths
  \/ getBootstrapScript
  \/ ExecChmod
  \/ InstallHandler
  \/ Popen
  \/ AssignProc
  \/ ChildExits
  \/ Communicate
  \/ CheckRc
  \/ HandleSigterm
  \/ SigtermDefault
  \/ DeviceReload

Spec == Init /\ [][Next]_vars

\* The statements of the single thread of control.  Each one returns: the
\* agent runs under "timeout 60s", FastCli and chmod are short local commands,
\* communicate() is only taken once the child has ended.  The answers of the
\* network, the end of the child, signals and the reload are the
\* environment's and carry no fairness.
(***************************************************************************)
(* Step 0, checkWithRedirector, and the address resolution it rests on,    *)
(* applied to a freshly constructed manager of either class.               *)
(***************************************************************************)
\* addresses handed to the constructors: prefix, host, path
Prefixes == {<<>>, S_slashes, S_http \o <<":">> \o S_slashes, S_https \o <<":">> \o S_slashes}
Hosts == {A_onprem, A_cloud, A_cloudApi,
          <<"x","a","p","i","s","e","r","v","e","r",".","i","o">>,
          <<"c","v","p",":","8","0","8","0">>}
Paths == {<<>>, <<"/","b">>, <<"/","a","p","i","s","e","r","v","e","r">>}
AddrInputs == {p \o h \o q : p \in Prefixes, h \in Hosts, q \in Paths}

\* hosts the redirector may assign
Assignments == {A_cloud, A_cloudApi,
                A_cloud \o <<":">> \o SECURE_HTTPS_PORT,
                <<"w","w","w",".","a","r","i","s","t","a",".","i","o",":","8","4","4","3">>,
                <<"c","v","4","4","3">>,
                <<"w","w","w",".","a","w","w","w",".","i","o">>}
\* body of the redirector's answer: not JSON, an empty JSON list, or the
\* documented structure with one assigned host
PostBodies ==
  {[shape |-> "notjson", host |-> None], [shape |-> "empty", host |-> None]} \cup
  {[shape |-> "assignment", host |-> a] : a \in Assignments}
PostStatuses == {200, 304, 404, 500}
PostResponses ==
  {[kind |-> "transport", status |-> 0, body |-> [shape |-> "none", host |-> None]],
   [kind |-> "silent", status |-> 0, body |-> [shape |-> "none", host |-> None]]} \cup
  {[kind |-> "http", status |-> st, body |-> b] : st \in PostStatuses, b \in PostBodies}

\* line 342
RedirectionError == Err("Exception", "No assignment found. Error talking to redirector")

\* lines 347-350: the enrollment address made from the new URL's netloc
redirectedEnrollAddr(netloc) ==
  LET withPort == IF ~endswith(netloc, SECURE_HTTPS_PORT)
                  THEN netloc \o <<":">> \o SECURE_HTTPS_PORT
                  ELSE netloc
  IN replace(withPort, S_www, S_apiserver)

InitResolve ==
  /\ cvAddr \in AddrInputs
  /\ enrollmentToken = "abc.def.ghi"
  /\ eosUrl = ""
  /\ python = 2
  /\ pc = "Construct"
  /\ requestsLoaded = TRUE
  /\ \E v \in {"cloud", "onprem"} : bm = [BootstrapManager EXCEPT !.variant = v]
  /\ started = <<>>
  /\ redirectorPosts = 0
  /\ postResp = NoPost
  /\ enrollRc = NoRc
  /\ enrollCmdAddr = NotRun
  /\ upgradeFrom = <<>>
  /\ cliCmds = <<>>
  /\ cliResults = <<>>
  /\ rebootPending = FALSE
  /\ tokenFile = "stale"
  /\ scriptFile = "stale"
  /\ locRc = NoRc
  /\ locOut = NoOut
  /\ locCmdAddr = NotRun
  /\ getCount = 0
  /\ getResp = NoResp
  /\ getUrl = NotRun
  /\ handlerInstalled = FALSE
  /\ proc = "None"
  /\ childState = "none"
  /\ childRc = NoReturncode
  /\ returncode = NoReturncode
  /\ childSignalled = FALSE
  /\ sigtermHandled = FALSE
  /\ fatalErr = NoError
  /\ exitCode = NoRc

\* CloudBootstrapManager() or OnPremBootstrapManager(), lines 547 and 549
Construct ==
  /\ pc = "Construct"
  /\ bm' = IF bm.variant = "cloud" THEN CloudBootstrapManager(cvAddr)
           ELSE OnPremBootstrapManager(cvAddr)
  /\ pc' = "Redirect"
  /\ UNCHANGED <<cfgVars, python, requestsLoaded, started, redirVars, enrollVars,
                 upVars, tokenFile, locVars, getVars, execVars, endVars>>

\* Step 0, checkWithRedirector
checkWithRedirector ==
  /\ pc = "Redirect"
  /\ IF bm.redirectorURL = NoneURL
     THEN /\ pc' = "Redirected"
          /\ UNCHANGED <<bm, redirVars, endVars>>
     ELSE \E resp \in PostResponses :
            /\ redirectorPosts' = redirectorPosts + 1
            /\ postResp' = resp
            /\ IF resp.kind = "silent"
               THEN \* no timeout= is passed: requests.post does not return
                    pc' = "Blocked" /\ UNCHANGED <<bm, endVars>>
               ELSE IF resp.kind = "transport" \/ raise_for_status(resp.status)
               THEN Die(RedirectionError) /\ UNCHANGED bm
               ELSE IF resp.body.shape = "notjson"
               THEN Die(Err("ValueError", "response.json")) /\ UNCHANGED bm
               ELSE IF resp.body.shape = "empty"
               THEN Die(Err("IndexError", "response.json()[0]")) /\ UNCHANGED bm
               ELSE LET url == getBootstrapURL(bm.variant = "cloud", resp.body.host)
                    IN /\ bm' = [bm EXCEPT !.bootstrapURL = url,
                                           !.enrollAddr = redirectedEnrollAddr(url.netloc)]
                       /\ pc' = "Redirected"
                       /\ UNCHANGED endVars
  /\ UNCHANGED <<cfgVars, python, requestsLoaded, started, enrollVars,
                 upVars, tokenFile, locVars, getVars, execVars>>

NextResolve ==
  \/ Construct
  \/ checkWithRedirector

SpecResolve == InitResolve /\ [][NextResolve]_vars

ProgramStep ==
  \/ Boot
  \/ ImportHandling
  \/ Main
  \/ getClientCerficates
  \/ getCertificatePaths
  \/ getBootstrapScript
  \/ ExecChmod
  \/ InstallHandler
  \/ Popen
  \/ AssignProc
  \/ Communicate
  \/ CheckRc

LiveSpec == Spec /\ WF_vars(ProgramStep)

(***************************************************************************)
(* Properties                                                              *)
(***************************************************************************)
stepStarted(step) == \E i \in 1..Len(started) : started[i] = step

WorkflowSteps == <<"Enroll", "LocatePaths", "FetchScript", "Execute">>

issued(cmd, from) == \E i \in 1..Len(cliCmds) : cliCmds[i] = [cmd |-> cmd, from |-> from]

enteredFrom(from) == \E i \in 1..Len(upgradeFrom) : upgradeFrom[i] = from

is2xx(status) == 200 <= status /\ status < 300

\* C1: in a cloud run, Enroll is started only after the redirector lookup was
\* performed and completed (it is what sets the enrollment address).
C1_RedirectBeforeEnroll ==
  (bm.variant = "cloud" /\ stepStarted("Enroll"))
    => (redirectorPosts > 0 /\ bm.enrollAddr # None)

\* C2: Enroll, LocatePaths, FetchScript, Execute start in that order, each at
\* most once, and each only after its predecessor succeeded: LocatePaths after
\* an enrollment that exited 0, FetchScript after LocatePaths set both paths,
\* Execute after a 2xx answer was stored as the script.
C2_StrictPipeline ==
  /\ Len(started) <= Len(WorkflowSteps)
  /\ \A i \in 1..Len(started) : started[i] = WorkflowSteps[i]
  /\ stepStarted("LocatePaths") => enrollRc = 0
  /\ stepStarted("FetchScript") => (bm.certificate # "" /\ bm.key # "")
  /\ stepStarted("Execute") =>
       (getResp.kind = "http" /\ is2xx(getResp.status) /\ scriptFile = getResp.body)

\* C3: after an enrollment that exited 124, the install command has been issued
\* when eosUrl is set; when it is empty the run is Fatal with the enrollment
\* command's own error, a non-zero exit status, and no FastCli command issued.
C3_TimeoutUpgradeOrReraise ==
  enrollRc = TIMEOUT_RC =>
    /\ eosUrl # "" => issued("install", "Enroll")
    /\ eosUrl = "" =>
         /\ pc = "Fatal"
         /\ fatalErr = CalledProcessError(TIMEOUT_RC, "enroll")
         /\ exitCode # 0
         /\ cliCmds = <<>>

C3_Witness ==
  /\ enrollRc = TIMEOUT_RC
  /\ eosUrl = ""
  /\ pc = "Fatal"
  /\ fatalErr = CalledProcessError(TIMEOUT_RC, "enroll")

\* C4: once install and reboot both succeeded, none of LocatePaths,
\* FetchScript, Execute is started.
C4_UpgradeAbsorbing ==
  rebootPending =>
    ~(stepStarted("LocatePaths") \/ stepStarted("FetchScript") \/ stepStarted("Execute"))

\* C5 as stated: tryImageUpgrade is entered, and FastCli commands are issued,
\* only by the Enroll step on exit status 124.
C5_OnlyFromEnroll124 ==
  [][(upgradeFrom' # upgradeFrom \/ cliCmds' # cliCmds)
       => (pc = "Enroll" /\ enrollRc' = TIMEOUT_RC)]_vars

\* C5 amended: tryImageUpgrade is entered, and FastCli commands are issued,
\* only by the module-level import handling or by the Enroll step on exit
\* status 124; no other step and no other Enroll failure enters it.
C5_OnlyFromImportOrEnroll124 ==
  [][(upgradeFrom' # upgradeFrom \/ cliCmds' # cliCmds)
       => (pc = "ImportHandling" \/ (pc = "Enroll" /\ enrollRc' = TIMEOUT_RC))]_vars

C5_Witness ==
  /\ enteredFrom("Enroll")
  /\ enrollRc = TIMEOUT_RC
  /\ issued("reboot", "Enroll")

\* C6: an enrollment that exits 0 is followed by LocatePaths as the next step;
\* one that exits with another code than 0 and 124 ends the run Fatal with the
\* enrollment command's error and no later step started.
C6_EnrollOutcome ==
  /\ (enrollRc = 0 /\ pc \notin {"Killed", "Rebooted"}) =>
       (pc = "LocatePaths" \/ (Len(started) >= 2 /\ started[2] = "LocatePaths"))
  /\ enrollRc \notin {NoRc, 0, TIMEOUT_RC} =>
       /\ pc = "Fatal"
       /\ fatalErr = CalledProcessError(enrollRc, "enroll")
       /\ exitCode # 0
       /\ started = <<"Enroll">>

C6_Witness ==
  /\ enrollRc = 1
  /\ pc = "Fatal"
  /\ started = <<"Enroll">>

\* the agent's answer in LocatePaths is one of the failure kinds
locateFailed ==
  /\ stepStarted("LocatePaths")
  /\ \/ locRc # 0
     \/ ~locOut.json
     \/ locOut.host # bm.enrollAddr
     \/ locOut.fields # {"certFile", "keyFile"}

\* C7: whatever way the agent fails in LocatePaths, the step completes with
\* the fixed fallback pair and the run goes on to FetchScript.
C7_LocateNeverFatal ==
  locateFailed =>
    /\ bm.certificate = FALLBACK_CERT
    /\ bm.key = FALLBACK_KEY
    /\ (pc = "FetchScript" \/ stepStarted("FetchScript") \/ pc \in {"Killed", "Rebooted"})

\* the manager has ended by itself after communicate() returned
endedAfterChild == returncode # NoReturncode /\ pc \in {"Done", "Exited", "Fatal"}

C9_SigtermForwarded ==
  (sigtermHandled /\ pc \in {"Exited", "Fatal"} /\ childState = "running") => childSignalled

\* C10: a GET that failed at transport level or was answered with a non-2xx
\* status ends the run Fatal after that single GET, the script file untouched
\* and Execute not started; the script file is only ever the body of a 2xx answer.
C10_NonSuccessIsFatal ==
  /\ (getResp.kind = "transport" \/ (getResp.kind = "http" /\ ~is2xx(getResp.status))) =>
       /\ pc = "Fatal"
       /\ getCount = 1
       /\ scriptFile = "stale"
       /\ ~stepStarted("Execute")
  /\ scriptFile # "stale" =>
       (getResp.kind = "http" /\ is2xx(getResp.status) /\ scriptFile = getResp.body)

\* a FastCli batch failed: non-zero exit status, or an output line starting with "%"
cliFailed(res) == res.exit # 0 \/ res.percent

\* C12: in each upgrade fallback with eosUrl set, install is issued, reboot is
\* issued only right after an install that succeeded, a failed install or
\* reboot is the last command and leaves the run Fatal, and neither command is
\* issued twice by the same fallback.
C12_InstallThenReboot ==
  /\ Len(cliResults) = Len(cliCmds)
  /\ \A from \in {"Import", "Enroll"} :
       (enteredFrom(from) /\ eosUrl # "") => issued("install", from)
  /\ \A i \in 1..Len(cliCmds) :
       /\ cliCmds[i].cmd = "reboot" =>
            /\ i > 1
            /\ cliCmds[i - 1] = [cmd |-> "install", from |-> cliCmds[i].from]
            /\ ~cliFailed(cliResults[i - 1])
       /\ cliFailed(cliResults[i]) =>
            /\ i = Len(cliCmds)
            /\ pc = "Fatal"
            /\ fatalErr.type = "Exception"
            /\ exitCode # 0
       /\ \A j \in 1..Len(cliCmds) : i # j => cliCmds[i] # cliCmds[j]

C12_Witness ==
  /\ Len(cliCmds) = 2
  /\ cliCmds[2] = [cmd |-> "reboot", from |-> "Enroll"]
  /\ cliFailed(cliResults[2])
  /\ pc = "Fatal"

\* C18: a run that ends Fatal before the bootstrap script was spawned exits
\* with a non-zero status; with an empty address or token no workflow step
\* starts: no token file, no agent command, no network request.
C18_FatalExitsNonZero ==
  /\ (pc = "Fatal" /\ childState = "none") => exitCode > 0
  /\ (cvAddr = <<>> \/ enrollmentToken = "") =>
       /\ pc \in {"Boot", "ImportHandling", "Main", "Fatal", "Killed", "Rebooted"}
       /\ started = <<>>
       /\ tokenFile = "stale"
       /\ enrollCmdAddr = NotRun
       /\ locCmdAddr = NotRun
       /\ getCount = 0
       /\ redirectorPosts = 0

C18_Witness ==
  /\ cvAddr # <<>>
  /\ enrollmentToken = ""
  /\ pc = "Fatal"
  /\ fatalErr.type = "SystemExit"
  /\ exitCode = 1

\* C19: in an on-prem run no redirector POST is sent, the manager's URL stays
\* the one resolved from cvAddr, the agent is given that URL's host in both of
\* its invocations, and the bootstrap GET goes to that URL.
C19_OnPremDirect ==
  bm.variant = "onprem" =>
    LET url == getBootstrapURL(FALSE, cvAddr)
    IN /\ redirectorPosts = 0
       /\ bm.bootstrapURL = url
       /\ bm.enrollAddr = url.netloc
       /\ enrollCmdAddr \in {NotRun, url.netloc}
       /\ locCmdAddr \in {NotRun, url.netloc}
       /\ getUrl \in {NotRun, geturl(url)}

C19_Witness ==
  /\ bm.variant = "onprem"
  /\ cvAddr = A_onprem
  /\ enrollCmdAddr = A_onprem
  /\ locCmdAddr = A_onprem
  /\ getUrl = S_http \o <<":">> \o S_slashes \o A_onprem \o DEFAULT_PATH

\* C17: a bootstrap GET that the server never answers still ends, and the run
\* reaches a terminal state.
C17_NetworkCallsEnd ==
  (getResp.kind = "silent") ~> (pc \in Terminal)

\* C20: the agent invocations always return; an enrollment that ends with the
\* timeout status 124 enters the upgrade fallback, and a -certsconfig call
\* that ends with 124 yields the fallback paths and goes on to FetchScript.
C20_AgentTimeoutHandled ==
  /\ [](enrollRc = TIMEOUT_RC => enteredFrom("Enroll"))
  /\ [](locRc = TIMEOUT_RC =>
          /\ bm.certificate = FALLBACK_CERT
          /\ bm.key = FALLBACK_KEY
          /\ (pc = "FetchScript" \/ stepStarted("FetchScript")
              \/ pc \in {"Killed", "Rebooted"}))
  /\ (pc = "Enroll") ~> (pc # "Enroll")
  /\ (pc = "LocatePaths") ~> (pc # "LocatePaths")

C20_Witness ==
  /\ enrollRc = TIMEOUT_RC
  /\ enteredFrom("Enroll")
  /\ locRc = TIMEOUT_RC
  /\ bm.certificate = FALLBACK_CERT
  /\ pc = "FetchScript"

(***************************************************************************)
(* Address resolution and redirection, checked under SpecResolve           *)
(***************************************************************************)
\* the parts of an address as its author wrote them
inputScheme(addr) ==
  IF startswith(addr, S_http \o <<":">> \o S_slashes) THEN S_http
  ELSE IF startswith(addr, S_https \o <<":">> \o S_slashes) THEN S_https
  ELSE <<>>

inputRest(addr) ==
  IF inputScheme(addr) # <<>> THEN Drop(addr, Len(inputScheme(addr)) + 3)
  ELSE IF startswith(addr, S_slashes) THEN Drop(addr, 2)
  ELSE addr

inputHost(addr) == SubSeq(inputRest(addr), 1, firstSlash(inputRest(addr), 1) - 1)

inputPath(addr) ==
  SubSeq(inputRest(addr), firstSlash(inputRest(addr), 1), Len(inputRest(addr)))

isBareHost(addr) ==
  inputScheme(addr) = <<>> /\ inputPath(addr) = <<>> /\ inputHost(addr) # <<>>

\* a host with every label equal to old replaced by new; labels are
\* separated by "." and end at the port's ":"
RECURSIVE mapLabels(_, _, _, _)
mapLabels(s, cur, old, new) ==
  LET fixed == IF cur = old THEN new ELSE cur
  IN IF s = <<>> THEN fixed
     ELSE IF Head(s) \in {".", ":"}
     THEN fixed \o <<Head(s)>> \o mapLabels(Tail(s), <<>>, old, new)
     ELSE mapLabels(Tail(s), Append(cur, Head(s)), old, new)

hasLabel(host, l) == mapLabels(host, <<>>, l, <<"#">>) # host

colons(s) == Cardinality({i \in 1..Len(s) : s[i] = ":"})

COLON_PORT == <<":">> \o SECURE_HTTPS_PORT

redirectSucceeded == pc = "Redirected" /\ postResp.kind = "http"

\* C11: the redirector lookup sends exactly one POST; a transport failure
\* or a non-2xx answer ends in the fatal redirection error, with the
\* manager's bootstrap URL and enrollment address as they were before
C11_RedirectFailureIsFatal ==
  /\ (bm.variant = "cloud" /\ pc \in {"Redirected", "Fatal", "Blocked"})
       => redirectorPosts = 1
  /\ (postResp.kind = "transport"
      \/ (postResp.kind = "http" /\ ~is2xx(postResp.status)))
       => /\ pc = "Fatal"
          /\ fatalErr = RedirectionError
          /\ bm.bootstrapURL = getBootstrapURL(TRUE, cvAddr)
          /\ bm.enrollAddr = None

\* C13: a bare host (no scheme, no path, with or without a leading "//")
\* resolves to that very host, with scheme https in the cloud and http on
\* premises, and the path /ztp/bootstrap
C13_BareHostDefaults ==
  (pc = "Redirect" /\ isBareHost(cvAddr))
    => /\ bm.bootstrapURL.netloc = inputHost(cvAddr)
       /\ bm.bootstrapURL.scheme = IF bm.variant = "cloud" THEN S_https ELSE S_http
       /\ bm.bootstrapURL.path = DEFAULT_PATH

\* C13 as the code has it: in the cloud every occurrence of "apiserver"
\* in the host is replaced by "www"; scheme and path as stated
C13_BareHostDefaultsRewritten ==
  (pc = "Redirect" /\ isBareHost(cvAddr))
    => /\ bm.bootstrapURL.netloc =
            IF bm.variant = "cloud"
            THEN replace(inputHost(cvAddr), S_apiserver, S_www)
            ELSE inputHost(cvAddr)
       /\ bm.bootstrapURL.scheme = IF bm.variant = "cloud" THEN S_https ELSE S_http
       /\ bm.bootstrapURL.path = DEFAULT_PATH

C13_Witness ==
  /\ pc = "Redirect"
  /\ bm.variant = "cloud"
  /\ cvAddr = S_slashes \o A_cloudApi
  /\ geturl(bm.bootstrapURL) = <<"h","t","t","p","s",":","/","/","w","w","w",".","a","r","i","s","t","a",".","i","o","/","z","t","p","/","b","o","o","t","s","t","r","a","p">>

\* C14: an address given with a scheme and a non-empty path resolves to a
\* URL with exactly that scheme and that path, in both variants
C14_SchemeAndPathKept ==
  (pc = "Redirect" /\ inputScheme(cvAddr) # <<>> /\ inputPath(cvAddr) # <<>>)
    => /\ bm.bootstrapURL.scheme = inputScheme(cvAddr)
       /\ bm.bootstrapURL.path = inputPath(cvAddr)

\* C15: in the cloud a host with the label apiserver resolves to the same
\* host with that label turned into www and the rest of the address as
\* given; on premises the host is not rewritten; after a successful
\* redirection the enrollment address is the returned host with its www
\* label turned into apiserver and nothing else of the host altered
C15_HostLabelRewriting ==
  /\ (pc = "Redirect" /\ bm.variant = "cloud" /\ hasLabel(inputHost(cvAddr), S_apiserver))
       => /\ bm.bootstrapURL.netloc = mapLabels(inputHost(cvAddr), <<>>, S_apiserver, S_www)
          /\ bm.bootstrapURL.path =
               IF inputPath(cvAddr) = <<>> THEN DEFAULT_PATH ELSE inputPath(cvAddr)
          /\ bm.bootstrapURL.scheme =
               IF inputScheme(cvAddr) = <<>> THEN S_https ELSE inputScheme(cvAddr)
  /\ (pc = "Redirect" /\ bm.variant = "onprem")
       => bm.bootstrapURL.netloc = inputHost(cvAddr)
  /\ redirectSucceeded
       => LET given == postResp.body.host
              expected == mapLabels(given, <<>>, S_www, S_apiserver)
          IN bm.enrollAddr \in {expected, expected \o COLON_PORT}

\* C16: after a successful redirection the enrollment address ends with
\* ":443", appended exactly when the returned host does not already end
\* with ":443", and never twice
C16_PortSuffixOnce ==
  redirectSucceeded
    => LET given == postResp.body.host
       IN /\ endswith(bm.enrollAddr, COLON_PORT)
          /\ ~endswith(bm.enrollAddr, COLON_PORT \o COLON_PORT)
          /\ colons(bm.enrollAddr) =
               IF endswith(given, COLON_PORT) THEN colons(given) ELSE colons(given) + 1

(***************************************************************************)
(* The enrollment address and the client credential along a run            *)
(***************************************************************************)
\* C21: when Enroll invokes the agent the enrollment address is a defined
\* host, never None, in the cloud as on premises, and LocatePaths gives the
\* agent that same address and looks its answer up under it
C21_EnrollAddrDefined ==
  /\ enrollCmdAddr # NotRun
       => enrollCmdAddr # None /\ enrollCmdAddr # <<>>
  /\ locCmdAddr # NotRun
       => locCmdAddr = enrollCmdAddr /\ locCmdAddr = bm.enrollAddr

reportedPair ==
  /\ bm.certificate = REPORTED_CERT
  /\ bm.key = REPORTED_KEY
  /\ locRc = 0
  /\ locOut.json
  /\ locOut.host = bm.enrollAddr
  /\ locOut.fields = {"certFile", "keyFile"}

fallbackPair ==
  /\ bm.certificate = FALLBACK_CERT
  /\ bm.key = FALLBACK_KEY

\* C22: whenever FetchScript starts, and so for the bootstrap GET, the
\* certificate and key paths are both non-empty and are both the paths the
\* agent reported for the enrollment host or both the fallback paths
C22_ConsistentPair ==
  (pc = "FetchScript" \/ stepStarted("FetchScript"))
    => /\ bm.certificate # "" /\ bm.key # ""
       /\ reportedPair \/ fallbackPair

C22_Witness ==
  /\ stepStarted("FetchScript")
  /\ getCount = 1
  /\ reportedPair

====
